---- MODULE Spec2Model ----
(***************************************************************************)
(* AGRO-AI ("Krishi Sakhi"): the Flask /chat server of app.py and the      *)
(* terminal assistant of chatbot.py.                                       *)
(*                                                                         *)
(* Text is modelled as a sequence of chunks, each chunk a piece of a       *)
(* Python string.  The marker "[lang:ml]" is the two chunks "[lang:" and   *)
(* "ml]", so a marker can be cut in two, nested in another one, or followed*)
(* by other text, and a substring test on chunks is the substring test on  *)
(* characters: "[" only ever starts the chunk "[lang:".                    *)
(***************************************************************************)
EXTENDS Integers, Sequences, FiniteSets, TLC

VARIABLES
    prog,               \* which program this process is: "web", "terminal", or "none"
    \* ---- app.py
    web_fs,             \* what PDF_FILENAME is on disk when the server starts
    wpc,                \* "boot" | "serving" | "reloader"
    pdf_context,        \* app.py:32, the global knowledge string
    reqs,               \* the /chat requests in flight, one record per request slot
    \* ---- chatbot.py, main()
    disk,               \* path -> file, the operator's file system
    tpc,                \* position in main()
    pdf_files,          \* chatbot.py:148
    path,               \* chatbot.py:152
    knowledge_context,  \* chatbot.py:164
    user_input,         \* chatbot.py:175
    query,              \* chatbot.py:180
    lang,               \* chatbot.py:181
    attempts,           \* recognize_google calls of this turn, in order
    llm_calls,          \* model.generate_content calls of this turn
    llm_raised,         \* whether generate_content raised in this turn
    bot_response,       \* chatbot.py:199
    spoken,             \* replies printed by speak_response in this turn
    played,             \* whether playsound played the last reply
    \* ---- chat()'s reply parsing on its own (app.py:102-113)
    ppc,                \* "in" | "out"
    bot_response_text,  \* app.py:100
    response_text,      \* app.py:103
    resp_lang,          \* app.py:104
    \* ---- the two document loaders on their own
    ld_pc,              \* "in" | "out"
    ld_variant,         \* "web" (extract_text_from_pdf) | "terminal" (extract_text_from_pdfs)
    ld_files,           \* the files behind the paths the loader is given
    ld_out              \* what the loader returned

webVars == <<web_fs, wpc, pdf_context, reqs>>
termVars == <<disk, tpc, pdf_files, path, knowledge_context, user_input, query,
              lang, attempts, llm_calls, llm_raised, bot_response, spoken, played>>
postVars == <<ppc, bot_response_text, response_text, resp_lang>>
loaderVars == <<ld_pc, ld_variant, ld_files, ld_out>>
vars == <<prog, webVars, termVars, postVars, loaderVars>>

----------------------------------------------------------------------------
(* Bounds *)

MaxReplyLen == 5     \* chunks in an LLM reply given to the reply parser
MaxPages == 2        \* pages of a PDF file
MaxLoadFiles == 2    \* paths handed to a loader
MaxReq == 2          \* /chat requests in flight at once
MaxFiles == 2        \* paths the operator may have accepted

----------------------------------------------------------------------------
(* Strings *)

NL == "\n"
WS == {" ", NL}                      \* the whitespace str.strip() removes
ML_TOKEN == <<"[lang:", "ml]">>      \* '[lang:ml]'
EN_TOKEN == <<"[lang:", "en]">>      \* '[lang:en]'
Chunks == {"[lang:", "ml]", "en]", " ", NL, "a"}

RECURSIVE SeqsUpTo(_, _)
SeqsUpTo(S, n) ==
    IF n = 0 THEN {<<>>}
    ELSE LET shorter == SeqsUpTo(S, n - 1)
         IN  shorter \cup {Append(s, c) : s \in {t \in shorter : Len(t) = n - 1}, c \in S}

RECURSIVE LStrip(_)
LStrip(s) == IF s # <<>> /\ Head(s) \in WS THEN LStrip(Tail(s)) ELSE s

RECURSIVE RStrip(_)
RStrip(s) ==
    IF s # <<>> /\ s[Len(s)] \in WS THEN RStrip(SubSeq(s, 1, Len(s) - 1)) ELSE s

\* A version that trims nothing.
StripNothing(s) == s

\* str.strip()
Strip(s) == RStrip(LStrip(s))

\* A version that looks at the whole text.
LastLineWholeText(s) == s

\* s.split('\n')[-1]
LastLine(s) ==
    LET nls == {i \in 1..Len(s) : s[i] = NL}
    IN  IF nls = {} THEN s
        ELSE SubSeq(s, (CHOOSE i \in nls : \A j \in nls : j <= i) + 1, Len(s))

\* sub in s
Contains(s, sub) ==
    \E i \in 1..(Len(s) - Len(sub) + 1) : SubSeq(s, i, i + Len(sub) - 1) = sub

\* A version that removes the first occurrence only: s.replace(old, '', 1).
RECURSIVE RemoveFirst(_, _)
RemoveFirst(s, old) ==
    IF Len(s) < Len(old) THEN s
    ELSE IF SubSeq(s, 1, Len(old)) = old THEN SubSeq(s, Len(old) + 1, Len(s))
    ELSE <<Head(s)>> \o RemoveFirst(Tail(s), old)

\* s.replace(old, ''): left to right, every non-overlapping occurrence.
RECURSIVE Replace(_, _)
Replace(s, old) ==
    IF Len(s) < Len(old) THEN s
    ELSE IF SubSeq(s, 1, Len(old)) = old THEN Replace(SubSeq(s, Len(old) + 1, Len(s)), old)
    ELSE <<Head(s)>> \o Replace(Tail(s), old)

----------------------------------------------------------------------------
(* app.py:102-113, the reply parsing of chat() *)

ParseResponse(text) ==
    LET lang_match == LastLine(Strip(text))
    IN  IF Contains(lang_match, ML_TOKEN)
        THEN [response |-> Strip(Replace(text, ML_TOKEN)), lang |-> "ml"]
        ELSE IF Contains(lang_match, EN_TOKEN)
        THEN [response |-> Strip(Replace(text, EN_TOKEN)), lang |-> "en"]
        ELSE [response |-> text, lang |-> "en"]

----------------------------------------------------------------------------
(* The document loaders: app.py:36-48 and chatbot.py:43-56.                 *)
(* A file either fails to open or has pages; page.extract_text() gives a    *)
(* page's text, and for a page without text either None or '', depending on *)
(* the pdfplumber release installed.                                        *)

NoFile == [opens |-> FALSE, pages |-> <<>>]        \* pdfplumber.open(path) raises
NonePage == [none |-> TRUE, text |-> <<>>]        \* extract_text() returned None
TextPage(t) == [none |-> FALSE, text |-> t]       \* extract_text() returned t
PageVals == {NonePage, TextPage(<<>>), TextPage(<<"p">>)}

Files(n) == {NoFile} \cup {[opens |-> TRUE, pages |-> ps] : ps \in SeqsUpTo(PageVals, n)}

\* app.py:41-44: for page in pdf.pages: if text: full_text += text + "\n"
RECURSIVE PagesTextWeb(_)
PagesTextWeb(pages) ==
    IF pages = <<>> THEN <<>>
    ELSE LET text == Head(pages)
         IN  (IF ~ text.none /\ text.text # <<>> THEN text.text \o <<NL>> ELSE <<>>)
                 \o PagesTextWeb(Tail(pages))

\* app.py:36-48, extract_text_from_pdf: the text, or None when anything raised
ExtractTextFromPdf(file) ==
    IF file.opens
    THEN [text |-> PagesTextWeb(file.pages), none |-> FALSE, log |-> <<>>, raised |-> FALSE]
    ELSE [text |-> <<>>, none |-> TRUE, log |-> <<>>, raised |-> FALSE]

\* chatbot.py:50-51: for page in pdf.pages: full_text += page.extract_text() + "\n"
\* None + "\n" raises TypeError: what was added before it stays in full_text.
RECURSIVE PagesTextTerminal(_)
PagesTextTerminal(pages) ==
    IF pages = <<>> THEN [text |-> <<>>, ok |-> TRUE]
    ELSE IF Head(pages).none THEN [text |-> <<>>, ok |-> FALSE]
    ELSE LET rest == PagesTextTerminal(Tail(pages))
         IN  [text |-> Head(pages).text \o <<NL>> \o rest.text, ok |-> rest.ok]

\* chatbot.py:48-54, one turn of the loop over pdf_paths
ReadFile(file) ==
    IF file.opens THEN PagesTextTerminal(file.pages) ELSE [text |-> <<>>, ok |-> FALSE]

\* A version without the try/except around a file: the first failure propagates.
RECURSIVE ExtractUnguarded(_)
ExtractUnguarded(files) ==
    IF files = <<>> THEN [text |-> <<>>, none |-> FALSE, log |-> <<>>, raised |-> FALSE]
    ELSE LET one == ReadFile(Head(files))
             rest == ExtractUnguarded(Tail(files))
         IN  IF one.ok
             THEN [text |-> one.text \o rest.text, none |-> FALSE,
                   log |-> <<"processed">> \o rest.log, raised |-> rest.raised]
             ELSE [text |-> one.text, none |-> FALSE, log |-> <<>>, raised |-> TRUE]

\* chatbot.py:43-56, extract_text_from_pdfs: the text and the per-file reports
RECURSIVE ExtractTextFromPdfs(_)
ExtractTextFromPdfs(files) ==
    IF files = <<>> THEN [text |-> <<>>, none |-> FALSE, log |-> <<>>, raised |-> FALSE]
    ELSE LET one == ReadFile(Head(files))
             rest == ExtractTextFromPdfs(Tail(files))
         IN  [text |-> one.text \o rest.text, none |-> FALSE,
              log |-> <<IF one.ok THEN "processed" ELSE "could not read">> \o rest.log,
              raised |-> rest.raised]

----------------------------------------------------------------------------
(* The LLM client adapters: app.py:66-86 and chatbot.py:106-136.            *)

APOLOGY == "Sorry, I am having trouble connecting to my brain right now. Please try again later."
APOLOGY_WEB == <<APOLOGY, " ", "[lang:", "en]">>     \* app.py:86
APOLOGY_TERMINAL == <<APOLOGY>>                      \* chatbot.py:136

\* What model.generate_content(...) followed by response.text does: a text, or an
\* exception (network, auth, quota).
Generated(t) == [error |-> "none", text |-> t]
Raised(e) == [error |-> e, text |-> <<>>]
LlmErrors == {"network", "auth", "quota"}
LlmTexts == {<<"a">>, <<"a", NL, "[lang:", "ml]">>, <<"a", " ", "[lang:", "en]">>}
LlmOutcomes == {Generated(t) : t \in LlmTexts} \cup {Raised(e) : e \in LlmErrors}

\* A version whose fallback is the other file's string.
WebAdapterUntagged(outcome) ==
    IF outcome.error = "none" THEN outcome.text ELSE APOLOGY_TERMINAL

\* app.py:78-86, get_gemini_response
GetGeminiResponseWeb(outcome) ==
    IF outcome.error = "none" THEN outcome.text ELSE APOLOGY_WEB

\* chatbot.py:124-136, get_gemini_response
GetGeminiResponseTerminal(outcome) ==
    IF outcome.error = "none" THEN outcome.text ELSE APOLOGY_TERMINAL

----------------------------------------------------------------------------
(* app.py: start-up and the /chat handler.                                  *)

ERR_NOT_FOUND == <<"Error: Could not find the knowledge document 'pop2016.pdf'.">>   \* app.py:55
ERR_UNREADABLE == <<"Error: The provided PDF could not be read or is empty.">>       \* app.py:63

\* app.py:50-64, load_initial_context: the value pdf_context is given
LoadInitialContext(fs) ==
    IF ~ fs.exists THEN ERR_NOT_FOUND
    ELSE LET context == ExtractTextFromPdf(fs.file)
         IN  IF ~ context.none /\ context.text # <<>> THEN context.text ELSE ERR_UNREADABLE

\* app.py:119, the condition under which the process loads the document
LoadsContext(fs) == fs.run_main \/ ~ fs.dev

\* The request bodies: request.get_json() gives an object with or without "query",
\* or something that is no object (None, a list).
NotAnObject == [object |-> FALSE, fields |-> {}, query |-> <<>>]
Object(fields, q) == [object |-> TRUE, fields |-> fields, query |-> q]
Bodies == {NotAnObject, Object({}, <<>>), Object({"query"}, <<>>), Object({"query"}, <<"a">>)}

\* A version that tests for the field only: user_query is None.
QueryMissing(body) == "query" \notin body.fields

\* app.py:95-97: user_query = data.get('query'); not user_query
NoQuery(body) == "query" \notin body.fields \/ body.query = <<>>

\* A version of chat() that stores the query in the global.
ContextAfterChatWritten(context, user_query) == user_query

\* app.py:93-100: chat() declares the global and only reads it
ContextAfterChat(context, user_query) == context

----------------------------------------------------------------------------
(* chatbot.py: what main() computes on the lines it reads.                  *)

\* str.lower(), chunk by chunk
LowerChunk(c) ==
    CASE c = ".PDF" -> ".pdf"
      [] c = "DONE" -> "done"
      [] c = "EXIT" -> "exit"
      [] c = "Speak" -> "speak"
      [] c = "Hello" -> "hello"
      [] OTHER -> c

Lower(s) == [i \in 1..Len(s) |-> LowerChunk(s[i])]

\* s.endswith(suffix)
EndsWith(s, suffix) ==
    Len(s) >= Len(suffix) /\ SubSeq(s, Len(s) - Len(suffix) + 1, Len(s)) = suffix

\* A version of the test of chatbot.py:158 that does not look at the disk.
HasPdfSuffix(p, fs) == EndsWith(Lower(p), <<".pdf">>)

\* chatbot.py:158: os.path.exists(path) and path.lower().endswith('.pdf')
ValidPdfPath(p, fs) == p \in DOMAIN fs /\ EndsWith(Lower(p), <<".pdf">>)

\* chatbot.py:153
IsDone(p) == Lower(p) = <<"done">>

----------------------------------------------------------------------------
(* The values the variables of a program that is not running hold. *)

IdleReq == [pc |-> "idle", body |-> NotAnObject,
            calls |-> 0, raised |-> FALSE, raw |-> <<>>, status |-> 0,
            error |-> FALSE, response |-> <<>>, lang |-> "none"]

WebIdle ==
    /\ web_fs = [exists |-> FALSE, file |-> NoFile, run_main |-> FALSE, dev |-> FALSE]
    /\ wpc = "boot"
    /\ pdf_context = <<>>
    /\ reqs = [r \in 1..MaxReq |-> IdleReq]

TermIdle ==
    /\ disk = [p \in {} |-> NoFile]
    /\ tpc = "collect"
    /\ pdf_files = <<>>
    /\ path = <<>>
    /\ knowledge_context = <<>>
    /\ user_input = <<>>
    /\ query = <<>>
    /\ lang = "en"
    /\ attempts = <<>>
    /\ llm_calls = 0
    /\ llm_raised = FALSE
    /\ bot_response = <<>>
    /\ spoken = 0
    /\ played = FALSE

PostIdle ==
    /\ ppc = "in"
    /\ bot_response_text = <<>>
    /\ response_text = <<>>
    /\ resp_lang = "none"

LoaderIdle ==
    /\ ld_pc = "in"
    /\ ld_variant = "none"
    /\ ld_files = <<>>
    /\ ld_out = [text |-> <<>>, none |-> FALSE, log |-> <<>>, raised |-> FALSE]

----------------------------------------------------------------------------
(* The reply parser on every reply of up to MaxReplyLen chunks. *)

Replies == SeqsUpTo(Chunks, MaxReplyLen)

InitPost ==
    /\ prog = "none"
    /\ WebIdle /\ TermIdle /\ LoaderIdle
    /\ ppc = "in"
    /\ bot_response_text \in Replies
    /\ response_text = <<>>
    /\ resp_lang = "none"

\* app.py:102-113
Parse ==
    /\ ppc = "in"
    /\ LET out == ParseResponse(bot_response_text)
       IN  /\ response_text' = out.response
           /\ resp_lang' = out.lang
    /\ ppc' = "out"
    /\ UNCHANGED <<prog, webVars, termVars, loaderVars, bot_response_text>>

NextPost == Parse

SpecPost == InitPost /\ [][NextPost]_vars

----------------------------------------------------------------------------
(* What the claims about the reply parser say, stated on the reply itself.  *)

IsBlankFrom(s, i) == \A k \in i..Len(s) : s[k] \in WS

OccursAt(s, tok, i) ==
    /\ i >= 1
    /\ i + Len(tok) - 1 <= Len(s)
    /\ SubSeq(s, i, i + Len(tok) - 1) = tok

\* tok occurs on the last line of s that holds more than whitespace.
OnFinalLine(s, tok) ==
    \E i \in 1..Len(s) :
        /\ OccursAt(s, tok, i)
        /\ \A j \in (i + Len(tok))..Len(s) : s[j] = NL => IsBlankFrom(s, j)

\* The positions of s that lie in no occurrence of tok.
Outside(s, tok) ==
    {k \in 1..Len(s) : ~ \E i \in 1..k : OccursAt(s, tok, i) /\ k < i + Len(tok)}

\* s with every occurrence of tok taken out.
Without(s, tok) ==
    LET keep == Outside(s, tok)
    IN  [n \in 1..Cardinality(keep) |->
            s[CHOOSE k \in keep : Cardinality({x \in keep : x < k}) = n - 1]]

\* s without its leading and trailing whitespace.
Trimmed(s) ==
    LET solid == {k \in 1..Len(s) : s[k] \notin WS}
    IN  IF solid = {} THEN <<>>
        ELSE SubSeq(s, CHOOSE k \in solid : \A x \in solid : k <= x,
                       CHOOSE k \in solid : \A x \in solid : x <= k)

EndsIn(s, tok) == OccursAt(s, tok, Len(s) - Len(tok) + 1)

\* C1: a reply whose final non-empty line contains [lang:ml] is answered with lang
\* 'ml' and the reply less every [lang:ml], trimmed; nothing else is removed.
C1_MlMarker ==
    (ppc = "out" /\ OnFinalLine(bot_response_text, ML_TOKEN)) =>
        /\ resp_lang = "ml"
        /\ response_text = Trimmed(Without(bot_response_text, ML_TOKEN))

\* The marker twice, once on an earlier line, with whitespace around the reply.
C1_Witness ==
    /\ ppc = "out"
    /\ bot_response_text = <<"[lang:", "ml]", NL, "[lang:", "ml]">>
    /\ resp_lang = "ml"
    /\ response_text = <<>>

\* C2 as stated: every reply that ends in [lang:en] is answered with lang 'en' and
\* the reply less [lang:en], trimmed, whatever else the reply or its last line holds.
C2_EnMarkerAnyReply ==
    (ppc = "out" /\ EndsIn(bot_response_text, EN_TOKEN)) =>
        /\ resp_lang = "en"
        /\ response_text = Trimmed(Without(bot_response_text, EN_TOKEN))

\* C2 amended: a reply that ends in [lang:en] and whose last line does not contain
\* [lang:ml] is answered with lang 'en' and the reply less every [lang:en], trimmed.
C2_EnMarker ==
    (/\ ppc = "out"
     /\ EndsIn(bot_response_text, EN_TOKEN)
     /\ ~ OnFinalLine(bot_response_text, ML_TOKEN)) =>
        /\ resp_lang = "en"
        /\ response_text = Trimmed(Without(bot_response_text, EN_TOKEN))

\* [lang:ml] on an earlier line only, the reply starting with whitespace.
C2_Witness ==
    /\ ppc = "out"
    /\ bot_response_text = <<" ", "ml]", NL, "[lang:", "en]">>
    /\ resp_lang = "en"
    /\ response_text = <<"ml]">>

\* C3: only the final non-empty line is inspected; a reply with neither marker on it
\* is answered with lang 'en' and the reply itself, untrimmed, markers on earlier
\* lines left in place.
C3_NoMarker ==
    (/\ ppc = "out"
     /\ ~ OnFinalLine(bot_response_text, ML_TOKEN)
     /\ ~ OnFinalLine(bot_response_text, EN_TOKEN)) =>
        /\ resp_lang = "en"
        /\ response_text = bot_response_text

\* A marker on the first line, plain text on the last, whitespace at the end.
C3_Witness ==
    /\ ppc = "out"
    /\ bot_response_text = <<"[lang:", "ml]", NL, "a", " ">>
    /\ resp_lang = "en"
    /\ response_text = bot_response_text

----------------------------------------------------------------------------
(* The loaders on every list of up to MaxLoadFiles files of up to MaxPages  *)
(* pages.                                                                   *)

InitLoader ==
    /\ prog = "none"
    /\ WebIdle /\ TermIdle /\ PostIdle
    /\ ld_pc = "in"
    /\ ld_variant \in {"web", "terminal"}
    /\ ld_files \in SeqsUpTo(Files(MaxPages), MaxLoadFiles)
    /\ ld_variant = "web" => Len(ld_files) = 1
    /\ ld_out = [text |-> <<>>, none |-> FALSE, log |-> <<>>, raised |-> FALSE]

\* app.py:36-48
LoadWeb ==
    /\ ld_pc = "in"
    /\ ld_variant = "web"
    /\ ld_out' = ExtractTextFromPdf(ld_files[1])
    /\ ld_pc' = "out"
    /\ UNCHANGED <<prog, webVars, termVars, postVars, ld_variant, ld_files>>

\* chatbot.py:43-56
LoadTerminal ==
    /\ ld_pc = "in"
    /\ ld_variant = "terminal"
    /\ ld_out' = ExtractTextFromPdfs(ld_files)
    /\ ld_pc' = "out"
    /\ UNCHANGED <<prog, webVars, termVars, postVars, ld_variant, ld_files>>

NextLoader == LoadWeb \/ LoadTerminal

SpecLoader == InitLoader /\ [][NextLoader]_vars

----------------------------------------------------------------------------
(* What the claims about the loaders say, stated on the files themselves.   *)

HasText(page) == ~ page.none /\ page.text # <<>>

\* The file's text-bearing pages, each followed by a newline, in page order.
RECURSIVE TextOf(_)
TextOf(pages) ==
    IF pages = <<>> THEN <<>>
    ELSE (IF HasText(Head(pages)) THEN Head(pages).text \o <<NL>> ELSE <<>>)
             \o TextOf(Tail(pages))

\* The same for the files that open, in document order.
RECURSIVE TextOfAll(_)
TextOfAll(files) ==
    IF files = <<>> THEN <<>>
    ELSE (IF Head(files).opens THEN TextOf(Head(files).pages) ELSE <<>>)
             \o TextOfAll(Tail(files))

\* C7: in both loaders a page without extractable text is skipped and the remaining
\* pages are still read: the result is the text of the text-bearing pages, each
\* followed by a newline, in page order and document order.
C7_TextlessPageSkipped ==
    (ld_pc = "out" /\ \A i \in 1..Len(ld_files) : ld_files[i].opens) =>
        /\ ~ ld_out.none
        /\ ld_out.text = TextOfAll(ld_files)

\* The part of C7 about app.py's extract_text_from_pdf alone.
C7_WebLoaderSkips ==
    (ld_pc = "out" /\ ld_variant = "web" /\ ld_files[1].opens) =>
        /\ ~ ld_out.none
        /\ ld_out.text = TextOf(ld_files[1].pages)

\* Every page of the file came back as text (possibly the empty text).
Extracted(file) == file.opens /\ \A k \in 1..Len(file.pages) : ~ file.pages[k].none

\* What extract_text() returned for the file's pages, each followed by a newline.
Body(file) ==
    LET RECURSIVE Lines(_)
        Lines(ps) == IF ps = <<>> THEN <<>> ELSE Head(ps).text \o <<NL>> \o Lines(Tail(ps))
    IN  Lines(file.pages)

\* The texts of the files read successfully, one after the other.
RECURSIVE TextsRead(_)
TextsRead(files) ==
    IF files = <<>> THEN <<>>
    ELSE (IF Extracted(Head(files)) THEN Body(Head(files)) ELSE <<>>) \o TextsRead(Tail(files))

\* s can be read off t from left to right, skipping chunks of t.
RECURSIVE Embeds(_, _)
Embeds(s, t) ==
    IF s = <<>> THEN TRUE
    ELSE IF t = <<>> THEN FALSE
    ELSE IF Head(s) = Head(t) THEN Embeds(Tail(s), Tail(t))
    ELSE Embeds(s, Tail(t))

\* C8: a bad file does not abort the batch: every file is attempted and reported
\* on, nothing is raised, and the result contains the text of every file that was
\* read successfully, those after a failing file included, in the order given.
C8_BadFileDoesNotAbort ==
    (ld_pc = "out" /\ ld_variant = "terminal") =>
        /\ ~ ld_out.raised
        /\ Len(ld_out.log) = Len(ld_files)
        /\ \A i \in 1..Len(ld_files) :
               /\ ld_out.log[i] = "processed" <=> Extracted(ld_files[i])
               /\ Extracted(ld_files[i]) => Contains(ld_out.text, Body(ld_files[i]))
        /\ Embeds(TextsRead(ld_files), ld_out.text)

\* A file that cannot be opened, then a file with a page of text.
C8_Witness ==
    /\ ld_pc = "out"
    /\ ld_variant = "terminal"
    /\ ld_files = <<NoFile, [opens |-> TRUE, pages |-> <<TextPage(<<"p">>)>>]>>
    /\ ld_out.log = <<"could not read", "processed">>
    /\ ld_out.text = <<"p", NL>>

----------------------------------------------------------------------------
(* The server process of app.py.                                            *)

WebFiles == {NoFile, [opens |-> TRUE, pages |-> <<>>],
             [opens |-> TRUE, pages |-> <<TextPage(<<"p">>)>>]}

InitWeb ==
    /\ prog = "web"
    /\ web_fs \in [exists : BOOLEAN, file : WebFiles, run_main : BOOLEAN, dev : BOOLEAN]
    /\ ~ web_fs.exists => web_fs.file = NoFile
    /\ wpc = "boot"
    /\ pdf_context = <<>>
    /\ reqs = [r \in 1..MaxReq |-> IdleReq]
    /\ TermIdle /\ PostIdle /\ LoaderIdle

\* app.py:117-122: the process started by the reloader (WERKZEUG_RUN_MAIN = "true")
\* serves; the reloader process itself does not.
StartServer ==
    /\ prog = "web"
    /\ wpc = "boot"
    /\ pdf_context' = IF LoadsContext(web_fs) THEN LoadInitialContext(web_fs) ELSE pdf_context
    /\ wpc' = IF web_fs.run_main THEN "serving" ELSE "reloader"
    /\ UNCHANGED <<prog, web_fs, reqs, termVars, postVars, loaderVars>>

\* app.py:94-98: the body is read and checked
ChatReceive(r) ==
    /\ prog = "web"
    /\ wpc = "serving"
    /\ reqs[r].pc = "idle"
    /\ \E body \in Bodies :
        reqs' = [reqs EXCEPT ![r] =
            IF ~ body.object
            THEN [IdleReq EXCEPT !.pc = "done", !.body = body, !.status = 500]
            ELSE IF NoQuery(body)
            THEN [IdleReq EXCEPT !.pc = "done", !.body = body, !.status = 400, !.error = TRUE]
            ELSE [IdleReq EXCEPT !.pc = "llm", !.body = body]]
    /\ UNCHANGED <<prog, web_fs, wpc, pdf_context, termVars, postVars, loaderVars>>

\* app.py:100: get_gemini_response(user_query, pdf_context)
ChatGenerate(r) ==
    /\ prog = "web"
    /\ reqs[r].pc = "llm"
    /\ \E outcome \in LlmOutcomes :
        reqs' = [reqs EXCEPT ![r].pc = "parse",
                             ![r].calls = @ + 1,
                             ![r].raised = outcome.error # "none",
                             ![r].raw = GetGeminiResponseWeb(outcome)]
    /\ pdf_context' = ContextAfterChat(pdf_context, reqs[r].body.query)
    /\ UNCHANGED <<prog, web_fs, wpc, termVars, postVars, loaderVars>>

\* app.py:102-113
ChatRespond(r) ==
    /\ prog = "web"
    /\ reqs[r].pc = "parse"
    /\ LET out == ParseResponse(reqs[r].raw)
       IN  reqs' = [reqs EXCEPT ![r].pc = "done",
                                ![r].status = 200,
                                ![r].response = out.response,
                                ![r].lang = out.lang]
    /\ UNCHANGED <<prog, web_fs, wpc, pdf_context, termVars, postVars, loaderVars>>

\* The response has been sent; the next request may arrive.
ChatClose(r) ==
    /\ prog = "web"
    /\ reqs[r].pc = "done"
    /\ reqs' = [reqs EXCEPT ![r] = IdleReq]
    /\ UNCHANGED <<prog, web_fs, wpc, pdf_context, termVars, postVars, loaderVars>>

NextWeb ==
    \/ StartServer
    \/ \E r \in 1..MaxReq : ChatReceive(r)
    \/ \E r \in 1..MaxReq : ChatGenerate(r)
    \/ \E r \in 1..MaxReq : ChatRespond(r)
    \/ \E r \in 1..MaxReq : ChatClose(r)

SpecWeb == InitWeb /\ [][NextWeb]_vars

----------------------------------------------------------------------------
(* The terminal program of chatbot.py.                                      *)

\* The paths that may exist on the operator's disk, and what may be behind them.
DiskPaths == {<<"crops", ".pdf">>, <<"soil", ".PDF">>, <<"notes", ".txt">>}
DiskFiles == {NoFile, [opens |-> TRUE, pages |-> <<TextPage(<<>>)>>],
              [opens |-> TRUE, pages |-> <<TextPage(<<"p">>)>>]}
Disks == UNION {[D -> DiskFiles] : D \in SUBSET DiskPaths}

\* The lines the operator may type at the "PDF File n:" prompt.
PathLines == {<<"crops", ".pdf">>, <<" ", "crops", ".pdf", " ">>, <<"soil", ".PDF">>,
              <<"notes", ".txt">>, <<"done", ".pdf">>, <<>>,
              <<"done">>, <<"DONE">>, <<" ", "done">>}

\* The lines the operator may type at the "You:" prompt.
ChatLines == {<<"exit">>, <<" ", "EXIT">>, <<"speak">>, <<"Speak", " ">>,
              <<"hello">>, <<"Hello">>, <<>>}

\* What langdetect.detect(query) may do; the empty text has no features.
Detections(q) == IF q = <<>> THEN {"LangDetectException"}
                 ELSE {"ml", "en", "hi", "LangDetectException"}

\* What r.recognize_google(audio, language=...) may do.
Heard == {<<"hello">>, <<"krishi">>}
RecognitionErrors == {"UnknownValueError", "RequestError", "Exception"}

InitTerminal ==
    /\ prog = "terminal"
    /\ disk \in Disks
    /\ tpc = "collect"
    /\ pdf_files = <<>>
    /\ path = <<>>
    /\ knowledge_context = <<>>
    /\ user_input = <<>>
    /\ query = <<>>
    /\ lang = "en"
    /\ attempts = <<>>
    /\ llm_calls = 0
    /\ llm_raised = FALSE
    /\ bot_response = <<>>
    /\ spoken = 0
    /\ played = FALSE
    /\ WebIdle /\ PostIdle /\ LoaderIdle

turnVars == <<user_input, query, lang, attempts, llm_calls, llm_raised, bot_response,
              spoken, played>>

\* chatbot.py:151-161, one turn of the path loop
ReadPath ==
    /\ prog = "terminal"
    /\ tpc = "collect"
    /\ \E line \in PathLines :
        LET p == Strip(line)
        IN  /\ path' = p
            /\ IF IsDone(p)
               THEN /\ tpc' = IF pdf_files = <<>> THEN "collect" ELSE "extract"
                    /\ pdf_files' = pdf_files
               ELSE IF ValidPdfPath(p, disk)
               THEN /\ Len(pdf_files) < MaxFiles
                    /\ pdf_files' = Append(pdf_files, p)
                    /\ tpc' = "collect"
               ELSE /\ pdf_files' = pdf_files
                    /\ tpc' = "collect"
    /\ UNCHANGED <<prog, disk, knowledge_context, turnVars, webVars, postVars, loaderVars>>

\* chatbot.py:164-167
Extract ==
    /\ prog = "terminal"
    /\ tpc = "extract"
    /\ LET out == ExtractTextFromPdfs([i \in 1..Len(pdf_files) |->
                      IF pdf_files[i] \in DOMAIN disk THEN disk[pdf_files[i]] ELSE NoFile])
       IN  /\ knowledge_context' = out.text
           /\ tpc' = IF out.raised THEN "crashed"
                     ELSE IF Strip(out.text) = <<>> THEN "exited" ELSE "prompt"
    /\ UNCHANGED <<prog, disk, pdf_files, path, turnVars, webVars, postVars, loaderVars>>

\* chatbot.py:175-188: the line is read and dispatched
ReadInput ==
    /\ prog = "terminal"
    /\ tpc = "prompt"
    /\ \E line \in ChatLines :
        LET input == Lower(Strip(line))
        IN  /\ user_input' = input
            /\ IF input = <<"exit">>
               THEN tpc' = "ended" /\ UNCHANGED <<query, lang>>
               ELSE /\ lang' = "en"
                    /\ IF input = <<"speak">>
                       THEN query' = <<>> /\ tpc' = "capture"
                       ELSE query' = input /\ tpc' = "detect"
    /\ attempts' = <<>>
    /\ llm_calls' = 0
    /\ llm_raised' = FALSE
    /\ spoken' = 0
    /\ played' = FALSE
    /\ UNCHANGED <<prog, disk, pdf_files, path, knowledge_context, bot_response,
                   webVars, postVars, loaderVars>>

\* chatbot.py:190-196
Detect ==
    /\ prog = "terminal"
    /\ tpc = "detect"
    /\ \E detected_lang \in Detections(query) :
        lang' = IF detected_lang = "ml" THEN "ml" ELSE "en"
    /\ tpc' = "llm"
    /\ UNCHANGED <<prog, disk, pdf_files, path, knowledge_context, user_input, query,
                   attempts, llm_calls, llm_raised, bot_response, spoken, played,
                   webVars, postVars, loaderVars>>

\* chatbot.py:60-65: the microphone is opened and read outside any try
Capture ==
    /\ prog = "terminal"
    /\ tpc = "capture"
    /\ \E captured \in BOOLEAN : tpc' = IF captured THEN "recognize_ml" ELSE "crashed"
    /\ UNCHANGED <<prog, disk, pdf_files, path, knowledge_context, turnVars,
                   webVars, postVars, loaderVars>>

\* chatbot.py:67-73 and 83-88, then 184-186: the first recognition
RecognizeMl ==
    /\ prog = "terminal"
    /\ tpc = "recognize_ml"
    /\ \/ \E text \in Heard :
            /\ attempts' = Append(attempts, [language |-> "ml-IN", outcome |-> "heard"])
            /\ query' = text
            /\ lang' = "ml"
            /\ tpc' = "llm"
       \/ /\ attempts' = Append(attempts, [language |-> "ml-IN", outcome |-> "UnknownValueError"])
          /\ tpc' = "recognize_en"
          /\ UNCHANGED <<query, lang>>
       \/ \E e \in RecognitionErrors \ {"UnknownValueError"} :
            /\ attempts' = Append(attempts, [language |-> "ml-IN", outcome |-> e])
            /\ query' = <<>>
            /\ lang' = "none"
            /\ tpc' = "prompt"
    /\ UNCHANGED <<prog, disk, pdf_files, path, knowledge_context, user_input,
                   llm_calls, llm_raised, bot_response, spoken, played,
                   webVars, postVars, loaderVars>>

\* chatbot.py:74-82, then 184-186: the second recognition, made inside the handler
\* of the first one's UnknownValueError; only UnknownValueError is caught there.
RecognizeEn ==
    /\ prog = "terminal"
    /\ tpc = "recognize_en"
    /\ \/ \E text \in Heard :
            /\ attempts' = Append(attempts, [language |-> "en-IN", outcome |-> "heard"])
            /\ query' = text
            /\ lang' = "en"
            /\ tpc' = "llm"
       \/ /\ attempts' = Append(attempts, [language |-> "en-IN", outcome |-> "UnknownValueError"])
          /\ query' = <<>>
          /\ lang' = "none"
          /\ tpc' = "prompt"
       \/ \E e \in RecognitionErrors \ {"UnknownValueError"} :
            /\ attempts' = Append(attempts, [language |-> "en-IN", outcome |-> e])
            /\ tpc' = "crashed"
            /\ UNCHANGED <<query, lang>>
    /\ UNCHANGED <<prog, disk, pdf_files, path, knowledge_context, user_input,
                   llm_calls, llm_raised, bot_response, spoken, played,
                   webVars, postVars, loaderVars>>

\* chatbot.py:199: get_gemini_response(query, knowledge_context)
TerminalGenerate ==
    /\ prog = "terminal"
    /\ tpc = "llm"
    /\ \E outcome \in LlmOutcomes :
        /\ bot_response' = GetGeminiResponseTerminal(outcome)
        /\ llm_raised' = (outcome.error # "none")
    /\ llm_calls' = llm_calls + 1
    /\ tpc' = "speak"
    /\ UNCHANGED <<prog, disk, pdf_files, path, knowledge_context, user_input, query,
                   lang, attempts, spoken, played, webVars, postVars, loaderVars>>

\* chatbot.py:200 and 91-103: the reply is printed whether or not it can be played
SpeakResponse ==
    /\ prog = "terminal"
    /\ tpc = "speak"
    /\ \E audio \in BOOLEAN : played' = audio
    /\ spoken' = spoken + 1
    /\ tpc' = "prompt"
    /\ UNCHANGED <<prog, disk, pdf_files, path, knowledge_context, user_input, query,
                   lang, attempts, llm_calls, llm_raised, bot_response,
                   webVars, postVars, loaderVars>>

NextTerminal ==
    \/ ReadPath
    \/ Extract
    \/ ReadInput
    \/ Detect
    \/ Capture
    \/ RecognizeMl
    \/ RecognizeEn
    \/ TerminalGenerate
    \/ SpeakResponse

SpecTerminal == InitTerminal /\ [][NextTerminal]_vars

\* Either program.
Init == InitWeb \/ InitTerminal
Next == NextWeb \/ NextTerminal
Spec == Init /\ [][Next]_vars

----------------------------------------------------------------------------
(* What the claims about the two programs say.                              *)

Answered(r) == prog = "web" /\ reqs[r].pc = "done"
HasQueryField(body) == body.object /\ "query" \in body.fields
LacksQueryField(body) == body.object /\ "query" \notin body.fields

Rejected(r) == reqs[r].status = 400 /\ reqs[r].error /\ reqs[r].calls = 0
Served(r) == reqs[r].status = 200 /\ ~ reqs[r].error /\ reqs[r].calls = 1
                /\ reqs[r].lang \in {"en", "ml"}

\* C4 as stated: a body without a query field is answered 400 with an error and no
\* LLM call; a body with a query field is answered 200 with {response, lang} after
\* exactly one run of the pipeline.
C4_QueryFieldDecides ==
    \A r \in 1..MaxReq :
        Answered(r) =>
            /\ LacksQueryField(reqs[r].body) => Rejected(r)
            /\ HasQueryField(reqs[r].body) => Served(r)

\* C4 amended: an object body without a query field, or with an empty query, is
\* answered 400 with an error and no LLM call; an object body with a non-empty query
\* is answered 200 with {response, lang}, lang 'en' or 'ml', after exactly one LLM
\* call; a body that is no object is answered 500 with no LLM call.
C4_NonEmptyQueryDecides ==
    \A r \in 1..MaxReq :
        Answered(r) =>
            /\ (LacksQueryField(reqs[r].body)
                    \/ (HasQueryField(reqs[r].body) /\ reqs[r].body.query = <<>>))
                   => Rejected(r)
            /\ (HasQueryField(reqs[r].body) /\ reqs[r].body.query # <<>>) => Served(r)
            /\ ~ reqs[r].body.object => (reqs[r].status = 500 /\ reqs[r].calls = 0)

\* One request turned down for its empty query, another one served.
C4_Witness ==
    /\ prog = "web"
    /\ reqs[1].pc = "done" /\ reqs[1].body = Object({"query"}, <<>>) /\ reqs[1].status = 400
    /\ reqs[2].pc = "done" /\ reqs[2].body = Object({"query"}, <<"a">>)
    /\ reqs[2].status = 200 /\ reqs[2].lang = "ml" /\ reqs[2].response = <<"a">>

Tagged(text) == text # <<>> /\ text[1] = APOLOGY /\ EndsIn(text, EN_TOKEN)

\* C5 as stated: in both programs a failing generation call is not propagated, is
\* not retried, and is answered with the apology tagged [lang:en].
C5_TaggedApologyBoth ==
    /\ \A r \in 1..MaxReq :
           (prog = "web" /\ reqs[r].raised) =>
               (Tagged(reqs[r].raw) /\ reqs[r].calls = 1 /\ reqs[r].status # 500)
    /\ (prog = "terminal" /\ llm_raised) =>
           (Tagged(bot_response) /\ llm_calls = 1 /\ tpc # "crashed")

\* C5 amended: in both programs a failing generation call is not propagated and not
\* retried; app.py answers with the apology tagged [lang:en], chatbot.py with the
\* same apology without a marker.
C5_ApologyPerProgram ==
    /\ \A r \in 1..MaxReq :
           (prog = "web" /\ reqs[r].raised) =>
               (Tagged(reqs[r].raw) /\ reqs[r].calls = 1 /\ reqs[r].status # 500)
    /\ (prog = "terminal" /\ llm_raised) =>
           (bot_response = <<APOLOGY>> /\ llm_calls = 1 /\ tpc # "crashed")

\* The terminal program is about to speak the apology after a failed call.
C5_Witness ==
    /\ prog = "terminal"
    /\ tpc = "speak"
    /\ llm_raised
    /\ bot_response = <<APOLOGY>>

Loaded == prog = "web" /\ wpc # "boot" /\ LoadsContext(web_fs)

\* C6: once load_initial_context has run, pdf_context keeps the value set at load,
\* whatever requests are served, rejected or hit an LLM failure, in any interleaving.
C6_ContextReadOnly ==
    /\ [](Loaded => pdf_context = LoadInitialContext(web_fs))
    /\ [][Loaded => pdf_context' = pdf_context]_vars

\* A rejected request next to one answered after an LLM failure, the context intact.
C6_Witness ==
    /\ Loaded
    /\ pdf_context = <<"p", NL>>
    /\ reqs[1].pc = "done" /\ reqs[1].status = 400
    /\ reqs[2].pc = "done" /\ reqs[2].status = 200 /\ reqs[2].raised

Failed(a) == a.outcome # "heard"
Listening == tpc \in {"capture", "recognize_ml", "recognize_en"}

\* C9, recognition order and fallback: Malayalam is tried first; whenever that
\* attempt fails one English attempt follows; the result is (query, 'ml') or
\* (query, 'en') after the attempt that succeeded.
C9_EnglishFallback ==
    prog = "terminal" =>
        /\ attempts # <<>> => attempts[1].language = "ml-IN"
        /\ (attempts # <<>> /\ Failed(attempts[1]) /\ ~ Listening) =>
               (Len(attempts) = 2 /\ attempts[2].language = "en-IN")
        /\ (Len(attempts) = 1 /\ ~ Failed(attempts[1])) => (lang = "ml" /\ query \in Heard)
        /\ (Len(attempts) = 2 /\ ~ Failed(attempts[2])) => (lang = "en" /\ query \in Heard)

\* C9, both attempts failing: whatever the errors were, they are caught, the turn
\* makes no LLM call and no speech output, and the loop is back at its prompt.
C9_BothFailuresCaught ==
    (/\ prog = "terminal"
     /\ Len(attempts) = 2
     /\ Failed(attempts[1])
     /\ Failed(attempts[2])) =>
        /\ tpc = "prompt"
        /\ llm_calls = 0
        /\ spoken = 0

IsPdfName(p) == p # <<>> /\ p[Len(p)] \in {".pdf", ".PDF"}
TypedDone(p) == p \in {<<"done">>, <<"DONE">>}

\* C10: the path loop is left only on a 'done' entered with at least one accepted
\* path; every accepted path existed and ended in '.pdf' in any letter case; an
\* invalid path, or a 'done' with nothing accepted, changes nothing and prompts
\* again; extraction and the conversation do not start before the loop is left.
C10_PathLoop ==
    /\ [](prog = "terminal" =>
            /\ \A i \in 1..Len(pdf_files) :
                   pdf_files[i] \in DOMAIN disk /\ IsPdfName(pdf_files[i])
            /\ tpc # "collect" => (pdf_files # <<>> /\ TypedDone(path))
            /\ tpc = "collect" => (knowledge_context = <<>> /\ user_input = <<>>
                                      /\ llm_calls = 0 /\ spoken = 0))
    /\ [][(prog = "terminal" /\ tpc = "collect") =>
            /\ tpc' \in {"collect", "extract"}
            /\ tpc' = "extract" => (TypedDone(path') /\ pdf_files # <<>>)
            /\ (TypedDone(path') /\ pdf_files = <<>>) => tpc' = "collect"
            /\ (path' \notin DOMAIN disk \/ ~ IsPdfName(path')) => pdf_files' = pdf_files
            /\ pdf_files' # pdf_files => (pdf_files' = Append(pdf_files, path') /\ tpc' = "collect")
          ]_vars

\* Two paths accepted, one of them in capitals, and the loop left on 'DONE'.
C10_Witness ==
    /\ prog = "terminal"
    /\ tpc = "extract"
    /\ pdf_files = <<<<"soil", ".PDF">>, <<"crops", ".pdf">>>>
    /\ path = <<"DONE">>

====
